---- MODULE Spec2Model ----
(***************************************************************************)
(* Step scan engine of pyepics/stepscan: StepScan.run_stepscan,            *)
(* StepScan.prepare_stepscan and the interrupt flags they poll from the    *)
(* ScanDB info table (src/lib/scan.py, src/lib/scandb.py).                 *)
(*                                                                         *)
(* The main task is modelled statement group by statement group (pc names  *)
(* the next group to run).  Other clients of the info table (the GUI of    *)
(* src/lib/gui/edit_macros.py) write the request_* keys at any moment.     *)
(* Hardware (positioner and trigger done flags, elapsed time, trigger      *)
(* runtime, hook results, Ctrl-C) is the environment.  The done flags and  *)
(* the clocks are read by the code only inside its two wait loops and at   *)
(* the misfire check: the model tracks them from the move (the start) that *)
(* resets them to the last statement that reads them, and holds them at    *)
(* the value `at rest` outside of that window.                             *)
(***************************************************************************)
EXTENDS Integers, Sequences, FiniteSets, TLC

\* ---------------------------------------------------------------- bounds
MaxPts == 2        \* longest positioner array drawn by Init
MaxRetry == 1      \* cap on the number of misfire retries in one run
MaxPubPts == 3     \* array length of the scans followed without history
MaxThrPts == 3     \* array length of the scans followed with both helper threads
MaxMsgPts == 1     \* array length of the scans followed with the messenger thread
MaxCmds == 2       \* most rows of the commands table
MaxOrder == 1      \* largest run_order given to a command
MaxHooks == 4      \* most entries of a hook list
MaxMsgs == 6       \* most rows of the messages table
MaxScans == 2      \* most scans of the Eiger detector

Positioners == {1, 2}    \* self.positioners, in list order
Triggers == {1, 2}       \* self.triggers, in list order
Counters == {1}          \* self.counters
Detectors == {1}         \* self.detectors

FlagKeys == {"request_abort", "request_pause", "request_resume"}

VARIABLES
    pc,           \* next statement group of run_stepscan / prepare_stepscan
    outcome,      \* how run_stepscan ended: "none" while running
    scandb,       \* self.scandb is not None
    arrlen,       \* len(pos.array) of every positioner
    inlimits,     \* pos.verify_array() of every positioner
    breakpoints,  \* self.breakpoints
    info,         \* the info table of the store: key -> value
    abort, pause, resume,   \* self.abort, self.pause, self.resume
    i,            \* the loop index i of run_stepscan
    cpt, npts,    \* self.cpt, self.npts
    point_ok,     \* the local point_ok of run_stepscan
    complete,     \* self.complete
    message_thread,  \* self.message_thread: "None" or "started"
    msg_cpt,      \* self.message_thread.cpt, -1 for the None sentinel
    pos_done,     \* p.done of every positioner
    pos_timeout,  \* time.time() - t0 >= self.pos_maxmove_time in the move wait
    trig_done,    \* trig.done of every trigger
    elapsed,      \* time.time() - t0 after the trigger start, as a level
    calls,        \* history: the calls issued to collaborators, in order
    recording,    \* whether this specification keeps the history `calls`
    publish_thread,  \* self.publish_thread: "None", "alive" (started and not
                     \* joined; it may have finished or not), "joined"
    publishers,   \* the number of executions of set_all_scandata in progress
                  \* when the latest one began; 0 before the first
    seen,         \* history: what the interrupt samples and checks observed
    stepwise,     \* whether this specification follows the two helper threads
                  \* statement by statement (otherwise a join stands for the
                  \* steps the joined thread takes until it ends)
    thr_pc,       \* next statement of ScanMessenger.run: "none" before start()
    last_point,   \* the local last_point of ScanMessenger.run
    stale,        \* time.time() - t0 > self.timeout in ScanMessenger.run
    published,    \* history: the values the scan loop wrote to message_thread.cpt
    reported,     \* the reporting channel: the cpt values show_scan_progress
                  \* was executed with (-1: None)
    progress,     \* the value of scan_progress in the store
    pub_pc,       \* the thread running set_all_scandata: "none", "running", "ended"
    position,     \* where every positioner stands or was last sent to: the index
                  \* of a point of its array, or a place off the array (< 0)
    orig_positions   \* self.orig_positions

scanvars == <<pc, outcome, scandb, arrlen, inlimits, breakpoints, info, abort, pause,
              resume, i, cpt, npts, point_ok, complete, message_thread, msg_cpt,
              pos_done, pos_timeout, trig_done, elapsed, calls, recording,
              publish_thread, publishers, seen, stepwise, thr_pc, last_point, stale,
              published, reported, progress, pub_pc, position, orig_positions>>

config == <<scandb, arrlen, inlimits, breakpoints, recording, stepwise>>
flags == <<abort, pause, resume>>
hardware == <<pos_done, pos_timeout, trig_done, elapsed>>
thread == <<thr_pc, last_point, stale, reported>>
courier == <<message_thread, msg_cpt, published, thread>>
messenger == <<courier, progress>>
publish == <<publish_thread, publishers, pub_pc>>
places == <<position, orig_positions>>

\* ------------------------------------------------------------ other state
VARIABLES
    rows,         \* the rows of the store's info table, in insertion order
    lastop,       \* the latest call of get_info / set_info and what it returned
    written,      \* history: the value of the latest set_info of every key
    commands,     \* the rows of the store's commands table, in insertion order
    fetched,      \* the latest call of get_commands and the rows it returned
    macro,        \* a macro's caget / caput / PV call in progress
    epics,        \* history: the EPICS operations the macro calls performed
    verified,     \* self.verified
    lists,        \* self.positioners, self.triggers, self.counters, self.detectors
    hooks,        \* self.pre_scan_methods (at_break_methods and post_scan_methods
                  \* grow the same way)
    lastreg,      \* the latest registration call, or the validation of the scan
    messages,     \* the number of rows of the store's messages table (ids 1, 2, ...)
    db_messages,  \* the ScanDBMessageQueue of the macro window
    got,          \* what the latest get_new_messages returned (-1: None)
    delivered,    \* history: the ids of the messages the macro window wrote out
    dev_status,   \* copy_dev.status, with the scan whose step it stands for
    det_scan,     \* the scans of the Eiger detector: how many began, and how far
                  \* the latest one is
    worker,       \* EigerFileCopier.run: its position, the status it read, and
                  \* the scan it read its configuration for
    integrates    \* history: the calls of integrate() in EigerFileCopier.run

store == <<rows, lastop, written, commands, fetched, macro, epics>>
registry == <<verified, lists, hooks, lastreg>>
gui == <<messages, db_messages, got, delivered>>
poller == <<dev_status, det_scan, worker, integrates>>
apart == <<gui, poller>>
outside == <<store, registry, apart>>

vars == <<scanvars, outside>>

\* the statement groups inside `while not self.abort:` (lines 623-715)
LoopPcs == {"loop", "point", "paused", "poswait", "trigwait", "recheck", "read",
            "endpt"}
\* the statement groups inside the try block (lines 627-700)
TryPcs == {"point", "paused", "poswait", "trigwait", "recheck", "read"}
\* the finishing phase (lines 717-753)
FinishPcs == {"finish", "finalcheck", "post"}

\* ------------------------------------------------------------ helpers
Call(op, who, arg, line) == [op |-> op, who |-> who, arg |-> arg, line |-> line]

RECURSIVE ForEach(_, _, _, _, _)
\* one call of op per member of the list 1..n, in list order
ForEach(op, n, arg, line, k) ==
    IF k > n THEN <<>>
    ELSE <<Call(op, k, arg, line)>> \o ForEach(op, n, arg, line, k + 1)

CallAll(op, S, arg, line) == ForEach(op, Cardinality(S), arg, line, 1)

\* the history after the calls `new` were issued; a specification that follows
\* runs of unbounded length keeps no history
Log(new) == IF recording THEN calls \o new ELSE calls

RECURSIVE verify_from(_, _, _, _)
\* the loop of verify_scan from positioner p on, n the npts found so far (-1: None)
verify_from(p, n, len, lim) ==
    IF p > Cardinality(Positioners) THEN "ok"
    ELSE IF ~lim[p] THEN "array out of bounds"
    ELSE IF n # -1 /\ len[p] # n THEN "Inconsistent positioner array length"
    ELSE verify_from(p + 1, len[p], len, lim)

\* a verify_scan that checks the limits and forgets to compare the lengths
verify_scan_limits_only(len, lim) ==
    IF \A p \in Positioners : lim[p] THEN "ok" ELSE "array out of bounds"

\* StepScan.verify_scan: "ok", or the message given to set_error
verify_scan(len, lim) == verify_from(1, -1, len, lim)

\* StepScan.set_info: writes the store only when there is one
set_info(tbl, key, value) == IF scandb THEN [tbl EXCEPT ![key] = value] ELSE tbl

\* StepScan.get_infobool
Message(text) == [msg |-> text, cpt |-> 0]

\* StepScan.set_info (lines 219-223) of scan_progress: the value the store holds
\* after set_info('scan_progress', val)
set_progress(val) == IF scandb THEN val ELSE progress

get_infobool(tbl, key) == IF scandb THEN tbl[key] ELSE FALSE

\* StepScan.look_for_interrupts: the three flags as read from the store
look_for_interrupts(tbl) ==
    [abort |-> get_infobool(tbl, "request_abort"),
     pause |-> get_infobool(tbl, "request_pause"),
     resume |-> get_infobool(tbl, "request_resume")]

\* a pause loop that goes on until request_resume reads true
pause_continues_until_resume(s) == s.pause /\ ~s.abort /\ ~s.resume

\* `while self.pause: ... if self.look_for_interrupts(): break` (lines 632-635):
\* the pause loop goes on while pause is set and the sample did not read abort
pause_continues(s) == s.pause /\ ~s.abort

\* point_ok of lines 672-673: every trigger done and more than
\* 0.75*min_dwelltime elapsed since the start
primary_ok(done, el) == (\A t \in Triggers : done[t]) /\ el # "short"

\* a second chance in which only the last trigger's runtime decides
\* (`point_ok = trig.runtime > ...` for `point_ok = point_ok and ...`)
recheck_last_only(t, ok, rt) ==
    [ok |-> rt[Cardinality(Triggers)],
     aborted |-> IF rt[Cardinality(Triggers)] THEN <<>>
                 ELSE <<Call("trig.abort", Cardinality(Triggers), i, 683)>>]

RECURSIVE recheck_from(_, _, _)
\* the loop of lines 678-683 from trigger t on, ok the point_ok so far:
\* the result point_ok and the triggers that were aborted
recheck_from(t, ok, rt) ==
    IF t > Cardinality(Triggers) THEN [ok |-> ok, aborted |-> <<>>]
    ELSE LET ok2 == ok /\ rt[t]
             rest == recheck_from(t + 1, ok2, rt)
         IN [ok |-> rest.ok,
             aborted |-> (IF ok2 THEN <<>> ELSE <<Call("trig.abort", t, i, 683)>>)
                          \o rest.aborted]

\* ------------------------------------------------------------ initial state
\* done flags outside of the window in which the code reads them
at_rest(S) == [x \in S |-> TRUE]

seen0 == [observed |-> FALSE,    \* some interrupt sample of this run read abort
          primary |-> "none",    \* what the misfire check of this point saw:
                                 \* none / ok / not done / too short
          runtime |-> "none",    \* the runtime check of this point: none / ok / bad
          exit |-> "none",       \* why the point loop was left
          break_failed |-> FALSE]   \* an at_break hook has returned a true value

\* the keys of the info table that are followed, the values written to them (as
\* the text the table keeps) and the ways get_info is asked to return a value
Keys == {"request_abort", "request_pause"}
Values == {"None", "0", "1"}
Modes == {"plain", "as_int", "as_bool", "full_row"}

\* the store before any client touched it
EmptyStore ==
    /\ rows = <<>>
    /\ lastop = [name |-> "none", key |-> "none", value |-> "None", mode |-> "plain",
                 kind |-> "value", out |-> "None"]
    /\ written = [k \in Keys |-> "unset"]
    /\ commands = <<>>
    /\ fetched = [status |-> "any", reverse |-> FALSE, orderby |-> "run_order",
                  rows |-> <<>>]
    /\ macro = [pc |-> "idle", name |-> "none", abort |-> FALSE, paused |-> FALSE,
                late |-> FALSE]
    /\ epics = {}
    /\ messages = 0
    /\ db_messages = [made |-> FALSE, first |-> 0, last_id |-> 0]
    /\ got = <<>>
    /\ delivered = <<>>

\* the registration lists of a scan that was given the positioners, triggers,
\* counters and detectors of a run
Registered ==
    /\ verified = FALSE
    /\ lists = [positioners |-> <<1, 2>>, triggers |-> <<1, 2>>,
                counters |-> <<1>>, detectors |-> <<1>>]
    /\ hooks = <<[kind |-> "pos", id |-> 1], [kind |-> "pos", id |-> 2],
                 [kind |-> "det", id |-> 1]>>
    /\ lastreg = [name |-> "add_detector", arg |-> 1, before |-> FALSE]

\* the state outside of the scan engine while a scan is followed
\* EigerFileCopier.__init__ (lines 187-201): `self.set_state('idle')`, before a
\* scan of the detector has begun
Polling ==
    /\ dev_status = [val |-> "idle", scan |-> 0]
    /\ det_scan = [n |-> 0, phase |-> "none"]
    /\ worker = [pc |-> "sleep", state |-> dev_status, config |-> 0]
    /\ integrates = {}

Elsewhere == EmptyStore /\ Registered /\ Polling

\* StepScan.__init__ (lines 171-217) for every scan definition within the bounds
Constructed(rec, thr, lens) ==
    /\ recording = rec
    /\ stepwise = thr
    /\ publish_thread = "None" /\ publishers = 0 /\ pub_pc = "none"
    /\ thr_pc = "none" /\ last_point = 0 /\ stale = FALSE
    /\ published = {} /\ reported = {}
    /\ progress = Message("")
    /\ position = [p \in Positioners |-> 0 - p]
    /\ orig_positions = <<>>
    /\ pc = "idle"
    /\ outcome = "none"
    /\ scandb \in BOOLEAN
    /\ arrlen \in [Positioners -> lens]
    /\ inlimits \in [Positioners -> BOOLEAN]
    /\ breakpoints \in SUBSET (0 .. arrlen[1] - 1)
    /\ info = [k \in FlagKeys \cup {"last_error"} |->
                 IF k = "last_error" THEN "" ELSE FALSE]
    /\ abort = FALSE /\ pause = FALSE /\ resume = FALSE
    /\ i = -1
    /\ cpt = 0 /\ npts = 0
    /\ point_ok = TRUE
    /\ complete = FALSE
    /\ message_thread = "None"
    /\ msg_cpt = 0
    /\ pos_done = at_rest(Positioners)
    /\ pos_timeout = FALSE
    /\ trig_done = at_rest(Triggers)
    /\ elapsed = "short"
    /\ calls = <<>>
    /\ seen = seen0

\* a constructed scan whose run is followed with its call history
Init == Constructed(TRUE, FALSE, 1..MaxPts) /\ Elsewhere

\* a constructed scan whose run is followed without history, however long it is
LoopInit == Constructed(FALSE, FALSE, 1..MaxPts) /\ Elsewhere

\* constructed scans long enough for the loop to publish its data (line 644
\* asks for i > 1), followed without history
PubInit ==
    Constructed(FALSE, FALSE, (MaxPubPts - 1)..MaxPubPts) /\ Elsewhere

\* ------------------------------------------------------------ preparation
\* run_stepscan lines 607-618: up to the call of prepare_stepscan
Run ==
    /\ pc = "idle"
    /\ complete' = FALSE
    /\ publish_thread' = "None" /\ publishers' = 0 /\ pub_pc' = pub_pc
    /\ pc' = "verify"
    /\ UNCHANGED <<outcome, config, outside, places, info, flags, i, cpt, npts,
                   point_ok, messenger, hardware, calls, seen>>

\* an exception leaves run_stepscan
Raise(exc) == pc' = "done" /\ outcome' = exc

\* prepare_stepscan lines 523-529: verify_scan fails.  set_error writes last_error;
\* the message of line 527 reads self._scangroup, which StepScan never assigns,
\* so AttributeError leaves prepare_stepscan and run_stepscan before self.write
VerifyFails ==
    /\ pc = "verify"
    /\ verify_scan(arrlen, inlimits) # "ok"
    /\ info' = set_info(info, "last_error", verify_scan(arrlen, inlimits))
    /\ Raise("AttributeError")
    /\ UNCHANGED <<config, outside, places, flags, i, cpt, npts, point_ok, complete,
                   messenger, hardware, calls, seen>>
    /\ UNCHANGED publish

\* clear_interrupts (lines 499-510), called at line 531
clear_interrupts ==
    /\ pc = "verify"
    /\ verify_scan(arrlen, inlimits) = "ok"
    /\ abort' = FALSE /\ pause' = FALSE /\ resume' = FALSE
    /\ info' = set_info(set_info(set_info(info, "request_abort", FALSE),
                                 "request_pause", FALSE), "request_resume", FALSE)
    /\ pc' = "orig"
    /\ UNCHANGED <<outcome, config, outside, places, i, cpt, npts, point_ok, complete,
                   messenger, hardware, calls, seen>>
    /\ UNCHANGED publish

\* lines 534-537: capture the original positions, non-blocking move to start;
\* check_outputs raises Warning when a move returned a true value
MoveToStart ==
    /\ pc = "orig"
    /\ orig_positions' = position
    /\ calls' = Log(CallAll("current", Positioners, -1, 534)
                     \o CallAll("move_to_start", Positioners, 0, 536))
    /\ position' = [p \in Positioners |-> 0]
    /\ \E bad \in BOOLEAN :
          IF bad THEN Raise("Warning") ELSE pc' = "prescan" /\ outcome' = outcome
    /\ UNCHANGED <<config, outside, info, flags, i, cpt, npts, point_ok, complete,
                   messenger, hardware, seen>>
    /\ UNCHANGED publish

\* lines 539-566: dwell times, scan_progress 'preparing scan' (line 563), then
\* StepScan.pre_scan (lines 322-342) and its check
PreScan ==
    /\ pc = "prescan"
    /\ calls' = Log(CallAll("set_dwelltime", Detectors, 0, 560)
                     \o CallAll("pos.pre_scan", Positioners, -1, 329)
                     \o CallAll("det.pre_scan", Detectors, -1, 329))
    /\ \E bad \in BOOLEAN :
          IF bad THEN Raise("Warning") ELSE pc' = "open" /\ outcome' = outcome
    /\ progress' = set_progress(Message("preparing scan"))
    /\ UNCHANGED <<config, outside, places, info, flags, i, cpt, npts, point_ok,
                   complete, courier, hardware, seen>>
    /\ UNCHANGED publish

\* lines 568-583: open the output, first write_data, clear_data, the second
\* reset of request_abort in the store (line 578), scan_progress 'starting scan'
OpenOutput ==
    /\ pc = "open"
    /\ calls' = Log(<<Call("open_output_file", 0, 0, 568),
                       Call("write_data", 0, 0, 571)>>
                     \o CallAll("clear", Counters, 0, 393))
    /\ info' = set_info(info, "request_abort", FALSE)
    /\ progress' = set_progress(Message("starting scan"))
    /\ pc' = "thread"
    /\ UNCHANGED <<outcome, config, outside, places, flags, i, cpt, npts, point_ok,
                   complete, courier, hardware, seen>>
    /\ UNCHANGED publish

\* lines 585-591: start the messenger thread with cpt=0; self.cpt, self.npts
StartMessenger ==
    /\ pc = "thread"
    /\ message_thread' = "started"
    /\ msg_cpt' = 0
    /\ thr_pc' = IF stepwise THEN "start" ELSE thr_pc
    /\ UNCHANGED <<last_point, stale, published, reported, progress>>
    /\ cpt' = 0
    /\ npts' = arrlen[1]
    /\ pc' = "startwait"
    /\ UNCHANGED <<outcome, config, outside, places, info, flags, i, point_ok, complete,
                   hardware, calls, seen>>
    /\ UNCHANGED publish

\* lines 593-597: blocking move to start and its check
MoveToStartWait ==
    /\ pc = "startwait"
    /\ calls' = Log(CallAll("move_to_start", Positioners, 1, 593))
    /\ position' = [p \in Positioners |-> 0]
    /\ \E bad \in BOOLEAN :
          IF bad THEN Raise("Warning") ELSE pc' = "loop" /\ outcome' = outcome
    /\ UNCHANGED <<config, outside, orig_positions, info, flags, i, cpt, npts, point_ok,
                   complete, messenger, hardware, seen>>
    /\ UNCHANGED publish

\* ------------------------------------------------------------ the point loop
\* the number of misfire retries so far (runs of lines 706-712)
Retries(cs) == Cardinality({k \in DOMAIN cs : cs[k].line = 709 /\ cs[k].who = 1})

\* a loop test that lets the index reach npts
loop_test_past_end(ab, j) ==
    IF ab THEN [pc |-> "finish", i |-> j, exit |-> "abort"]
    ELSE IF j + 1 > npts THEN [pc |-> "finish", i |-> j + 1, exit |-> "end"]
    ELSE [pc |-> "point", i |-> j + 1, exit |-> "none"]

\* lines 623-626, `while not self.abort: i += 1; if i >= self.npts: break`,
\* entered with self.abort = ab and i = j: where control goes, the new i, and
\* why the loop was left if it was
loop_test(ab, j) ==
    IF ab THEN [pc |-> "finish", i |-> j, exit |-> "abort"]
    ELSE IF j + 1 >= npts THEN [pc |-> "finish", i |-> j + 1, exit |-> "end"]
    ELSE [pc |-> "point", i |-> j + 1, exit |-> "none"]

\* a retry that steps back two points
retry_index_twice(j) == j - 2

\* line 712: the index from which the loop goes on after a misfire, `i -= 1`
retry_index(j) == j - 1

\* publish_scandata(wait=False) (lines 421-429) under the test of line 644.
\* self.publishing_scandata is false there: the thread of an earlier iteration
\* was joined at line 714 and has reset it at line 419
publish_scandata ==
    IF i > 1 /\ scandb
    THEN /\ publish_thread' = "alive" /\ publishers' = 1
         /\ pub_pc' = IF stepwise THEN "running" ELSE pub_pc
    ELSE UNCHANGED publish

\* lines 636-648: move every positioner to its i-th target (a move clears the
\* positioner's done flag), publish the data so far, and start the move clock
move_positioners ==
    /\ calls' = Log(CallAll("move_to_pos", Positioners, i, 641))
    /\ position' = [p \in Positioners |-> i]
    /\ publish_scandata
    /\ pos_done' = [p \in Positioners |-> FALSE]
    /\ pos_timeout' = FALSE
    /\ UNCHANGED <<trig_done, elapsed>>

\* lines 654-664: settle, start every trigger (a start clears its done flag),
\* start the trigger clock
start_triggers ==
    /\ calls' = Log(CallAll("trig.start", Triggers, i, 659))
    /\ trig_done' = [t \in Triggers |-> FALSE]
    /\ elapsed' = "short"
    /\ pos_done' = at_rest(Positioners) /\ pos_timeout' = FALSE

\* lines 622-626: the first test of the while loop
EnterLoop ==
    /\ pc = "loop"
    /\ LET n == loop_test(abort, -1) IN
          /\ pc' = n.pc /\ i' = n.i
          /\ seen' = [seen EXCEPT !.exit = n.exit]
    /\ UNCHANGED <<outcome, config, outside, places, info, flags, cpt, npts, point_ok,
                   complete, messenger, hardware, calls>>
    /\ UNCHANGED publish

\* lines 628-648: point_ok, self.cpt = i+1, the interrupt sample at the start of
\* the point (its result is not used), the first test of `while self.pause`,
\* and, when not paused, the move to point i
BeginPoint ==
    /\ pc = "point"
    /\ point_ok' = TRUE
    /\ cpt' = i + 1
    /\ LET s == look_for_interrupts(info) IN
          /\ abort' = s.abort /\ pause' = s.pause /\ resume' = s.resume
          /\ seen' = [seen EXCEPT !.observed = @ \/ s.abort]
          /\ IF s.pause
             THEN pc' = "paused" /\ UNCHANGED <<hardware, calls, publish, position>>
             ELSE pc' = "poswait" /\ move_positioners
    /\ UNCHANGED <<outcome, config, outside, orig_positions, info, i, npts, complete,
                   messenger>>

\* a pause loop whose exit runs `i += 1` once more: the point is skipped
PausePoll_skip ==
    /\ pc = "paused"
    /\ LET s == look_for_interrupts(info) IN
          /\ abort' = s.abort /\ pause' = s.pause /\ resume' = s.resume
          /\ seen' = [seen EXCEPT !.observed = @ \/ s.abort]
          /\ IF pause_continues(s)
             THEN pc' = "paused" /\ UNCHANGED <<i, hardware, calls, publish, position>>
             ELSE /\ pc' = "poswait" /\ i' = i + 1
                  /\ calls' = Log(CallAll("move_to_pos", Positioners, i + 1, 641))
                  /\ position' = [p \in Positioners |-> i + 1]
                  /\ pos_done' = [p \in Positioners |-> FALSE]
                  /\ pos_timeout' = FALSE
                  /\ UNCHANGED <<trig_done, elapsed, publish>>
    /\ UNCHANGED <<outcome, config, outside, orig_positions, info, cpt, npts, point_ok,
                   complete, messenger>>

\* lines 632-648: one round of the pause loop: sleep, sample, break on abort,
\* the next test of `while self.pause`, and, when the pause loop is left, the
\* move to point i
PausePoll ==
    /\ pc = "paused"
    /\ LET s == look_for_interrupts(info) IN
          /\ abort' = s.abort /\ pause' = s.pause /\ resume' = s.resume
          /\ seen' = [seen EXCEPT !.observed = @ \/ s.abort]
          /\ IF pause_continues(s)
             THEN pc' = "paused" /\ UNCHANGED <<hardware, calls, publish, position>>
             ELSE pc' = "poswait" /\ move_positioners
    /\ UNCHANGED <<outcome, config, outside, orig_positions, info, i, cpt, npts,
                   point_ok, complete, messenger>>

\* lines 649-664: a round of the move wait while some positioner is not done and
\* the time is not up: sample the interrupts; when abort was read the wait is
\* left (break) and the triggers are started
PosWaitPoll ==
    /\ pc = "poswait"
    /\ ~(\A p \in Positioners : pos_done[p]) /\ ~pos_timeout
    /\ LET s == look_for_interrupts(info) IN
          /\ abort' = s.abort /\ pause' = s.pause /\ resume' = s.resume
          /\ seen' = [seen EXCEPT !.observed = @ \/ s.abort]
          /\ IF s.abort
             THEN pc' = "trigwait" /\ start_triggers
             ELSE pc' = "poswait" /\ UNCHANGED <<hardware, calls>>
    /\ UNCHANGED <<outcome, config, outside, places, info, i, cpt, npts, point_ok, complete,
                   messenger>>
    /\ UNCHANGED publish

\* lines 649-664: the move wait ends (every positioner done, or pos_maxmove_time
\* is up) and the triggers are started
PosWaitExit ==
    /\ pc = "poswait"
    /\ (\A p \in Positioners : pos_done[p]) \/ pos_timeout
    /\ pc' = "trigwait"
    /\ start_triggers
    /\ UNCHANGED <<outcome, config, outside, places, info, flags, i, cpt, npts,
                   point_ok, complete, messenger, seen>>
    /\ UNCHANGED publish

\* lines 665-674: the trigger wait ends (every trigger done, or the wait bound is
\* up), then the interrupt sample of line 670 (abort: break out of the point
\* loop) and the misfire check of lines 672-673
TrigWaitExit ==
    /\ pc = "trigwait"
    /\ (\A t \in Triggers : trig_done[t]) \/ elapsed = "over"
    /\ LET s == look_for_interrupts(info)
           ok == primary_ok(trig_done, elapsed) IN
          /\ abort' = s.abort /\ pause' = s.pause /\ resume' = s.resume
          /\ IF s.abort
             THEN /\ pc' = "finish" /\ point_ok' = point_ok
                  /\ seen' = [seen EXCEPT !.observed = TRUE, !.exit = "break"]
             ELSE /\ point_ok' = ok
                  /\ pc' = IF ok THEN "read" ELSE "recheck"
                  /\ seen' = [seen EXCEPT !.primary =
                                  IF \E t \in Triggers : ~trig_done[t] THEN "not done"
                                  ELSE IF elapsed = "short" THEN "too short"
                                  ELSE "ok"]
    /\ trig_done' = at_rest(Triggers) /\ elapsed' = "short"
    /\ UNCHANGED <<outcome, config, outside, places, info, i, cpt, npts, complete,
                   messenger, pos_done, pos_timeout, calls>>
    /\ UNCHANGED publish

\* lines 674-683: the second chance of a point that failed the misfire check:
\* point_ok again iff every trigger's runtime exceeds 0.8*min_dwelltime; from the
\* first trigger that fails on, each trigger is aborted
Recheck ==
    /\ pc = "recheck"
    /\ \E rt \in [Triggers -> BOOLEAN] :
          /\ ~recording \/ Retries(calls) < MaxRetry \/ (\A t \in Triggers : rt[t])
          /\ LET r == recheck_from(1, TRUE, rt) IN
                /\ point_ok' = r.ok
                /\ calls' = Log(r.aborted)
                /\ seen' = [seen EXCEPT !.runtime = IF \A t \in Triggers : rt[t]
                                                    THEN "ok" ELSE "bad"]
    /\ pc' = "read"
    /\ UNCHANGED <<outcome, config, outside, places, info, flags, i, cpt, npts,
                   complete, messenger, hardware>>
    /\ UNCHANGED publish

\* StepScan.at_break (lines 316-320): the at_break hooks, then write_data
at_break(b) ==
    CallAll("pos.at_break", Positioners, b, 317)
    \o CallAll("det.at_break", Detectors, b, 317)
    \o <<Call("write_data", 0, b, 319)>>

\* a point that is checkpointed before its counters are read
read_point_checkpoint_first(j, c) ==
    (IF j \in breakpoints THEN at_break(j) ELSE <<>>)
    \o CallAll("read", Counters, j, 688)
    \o CallAll("current", Positioners, j, 691)
    \o <<Call("message_thread.cpt", 0, c, 693)>>
    \o <<Call("look_for_interrupts", 0, j, 700)>>

\* the calls of lines 685-700 for point j with self.cpt = c, in program order
read_point(j, c) ==
    CallAll("read", Counters, j, 688)
    \o CallAll("current", Positioners, j, 691)
    \o <<Call("message_thread.cpt", 0, c, 693)>>
    \o (IF j \in breakpoints THEN at_break(j) ELSE <<>>)
    \o <<Call("look_for_interrupts", 0, j, 700)>>

\* lines 685-700: read every counter, record the actual positions, publish cpt
\* to the messenger thread, the checkpoint of a breakpoint index (line 698 drops
\* the list of hook results at_break returns), and the interrupt sample that
\* ends the point
ReadPoint ==
    /\ pc = "read"
    /\ calls' = Log(read_point(i, cpt))
    /\ msg_cpt' = cpt
    /\ published' = published \cup {cpt}
    /\ LET s == look_for_interrupts(info) IN
          /\ abort' = s.abort /\ pause' = s.pause /\ resume' = s.resume
          /\ \E bad \in (IF i \in breakpoints THEN BOOLEAN ELSE {FALSE}) :
                seen' = [seen EXCEPT !.observed = @ \/ s.abort,
                                     !.break_failed = @ \/ bad]
    /\ pc' = "endpt"
    /\ UNCHANGED <<outcome, config, outside, places, info, i, cpt, npts, point_ok, complete,
                   message_thread, thread, progress, hardware>>
    /\ UNCHANGED publish

\* lines 702-704: Ctrl-C in the try block
KeyboardInterrupt ==
    /\ pc \in TryPcs
    /\ info' = set_info(info, "request_abort", TRUE)
    /\ abort' = TRUE
    /\ pc' = "endpt"
    /\ pos_done' = at_rest(Positioners) /\ pos_timeout' = FALSE
    /\ trig_done' = at_rest(Triggers) /\ elapsed' = "short"
    /\ UNCHANGED <<outcome, config, outside, places, pause, resume, i, cpt, npts, point_ok,
                   complete, messenger, calls, seen>>
    /\ UNCHANGED publish

\* a retry that aborts the triggers but does not re-run the detectors' pre_scan
EndPoint_no_prescan ==
    /\ pc = "endpt"
    /\ calls' = Log(IF point_ok THEN <<>>
                     ELSE CallAll("trig.abort", Triggers, i, 709))
    /\ LET n == loop_test(abort, IF point_ok THEN i ELSE retry_index(i)) IN
          /\ pc' = n.pc /\ i' = n.i
          /\ seen' = [seen EXCEPT !.exit = n.exit, !.primary = "none",
                                  !.runtime = "none"]
    /\ (stepwise /\ publish_thread = "alive") => pub_pc = "ended"
    /\ publish_thread' = IF publish_thread = "alive" THEN "joined" ELSE publish_thread
    /\ publishers' = publishers /\ pub_pc' = pub_pc
    /\ UNCHANGED <<outcome, config, outside, places, info, flags, cpt, npts, point_ok,
                   complete, messenger, hardware>>

\* lines 705-715 and 623-626: the retry of a point that is not ok (abort every
\* trigger, pre_scan of every detector, i -= 1), the join of the publish thread
\* (which waits until the thread has finished), then the next test of the loop
EndPoint ==
    /\ pc = "endpt"
    /\ calls' = Log(IF point_ok THEN <<>>
                     ELSE CallAll("trig.abort", Triggers, i, 709)
                          \o CallAll("det.pre_scan", Detectors, i, 711))
    /\ LET n == loop_test(abort, IF point_ok THEN i ELSE retry_index(i)) IN
          /\ pc' = n.pc /\ i' = n.i
          /\ seen' = [seen EXCEPT !.exit = n.exit, !.primary = "none",
                                  !.runtime = "none"]
    /\ (stepwise /\ publish_thread = "alive") => pub_pc = "ended"
    /\ publish_thread' = IF publish_thread = "alive" THEN "joined" ELSE publish_thread
    /\ publishers' = publishers /\ pub_pc' = pub_pc
    /\ UNCHANGED <<outcome, config, outside, places, info, flags, cpt, npts, point_ok,
                   complete, messenger, hardware>>

\* ------------------------------------------------------------ finishing
\* a return that moves every positioner to the start of its array
return_moves_to_start(orig, k) ==
    [p \in 1..Len(orig) |-> Call("move_to", p, 0, 725)]

RECURSIVE return_moves(_, _)
\* lines 724-725, `for val, pos in zip(self.orig_positions, self.positioners):
\* pos.move_to(val, wait=False)`, from positioner k on
return_moves(orig, k) ==
    IF k > Cardinality(Positioners) \/ k > Len(orig) THEN <<>>
    ELSE <<Call("move_to", k, orig[k], 725)>> \o return_moves(orig, k + 1)

\* publish_scandata(wait=True) at line 720: set_all_scandata runs in the main
\* task; a publish thread that was not joined may still be running it
final_publish ==
    IF scandb
    THEN /\ \E running \in (IF publish_thread # "alive" THEN {FALSE}
                             ELSE IF stepwise THEN {pub_pc = "running"}
                             ELSE BOOLEAN) :
               publishers' = IF running THEN 2 ELSE 1
         /\ publish_thread' = publish_thread /\ pub_pc' = pub_pc
    ELSE UNCHANGED publish

\* lines 717-728: the final publish, return move of every positioner, closing
\* write_data
Finish ==
    /\ pc = "finish"
    /\ final_publish
    /\ calls' = Log(return_moves(orig_positions, 1)
                     \o <<Call("write_data", 0, -1, 727)>>)
    /\ position' = orig_positions
    /\ pc' = "finalcheck"
    /\ UNCHANGED <<outcome, config, outside, orig_positions, info, flags, i, cpt, npts,
                   point_ok, complete, messenger, hardware, seen>>

\* lines 729-731: the last interrupt sample decides between ScanDBAbort and
\* the post-scan hooks
FinalCheck ==
    /\ pc = "finalcheck"
    /\ LET s == look_for_interrupts(info) IN
          /\ abort' = s.abort /\ pause' = s.pause /\ resume' = s.resume
          /\ seen' = [seen EXCEPT !.observed = @ \/ s.abort]
          /\ IF s.abort THEN Raise("ScanDBAbort")
             ELSE pc' = "post" /\ outcome' = outcome
    /\ UNCHANGED <<config, outside, places, info, i, cpt, npts, point_ok, complete,
                   messenger, hardware, calls>>
    /\ UNCHANGED publish

\* lines 733-753: post_scan (scan_progress 'finishing', then the hooks) and its
\* check, complete, stop and join the messenger thread, scan_progress 'scan
\* complete', return.  In a run whose threads are followed the action ends
\* before the messenger is stopped
PostScan ==
    /\ pc = "post"
    /\ calls' = Log(CallAll("pos.post_scan", Positioners, -1, 348)
                     \o CallAll("det.post_scan", Detectors, -1, 348))
    /\ \E bad \in BOOLEAN :
          IF bad
          THEN /\ Raise("Warning")
               /\ progress' = set_progress(Message("finishing"))
               /\ UNCHANGED <<complete, courier>>
          ELSE /\ complete' = TRUE
               /\ UNCHANGED <<published, thread>>
               /\ IF stepwise
                  THEN /\ pc' = "stop"
                       /\ progress' = set_progress(Message("finishing"))
                       /\ UNCHANGED <<outcome, message_thread, msg_cpt>>
                  ELSE /\ msg_cpt' = -1
                       /\ message_thread' = "joined"
                       /\ progress' = set_progress(Message("scan complete"))
                       /\ pc' = "done" /\ outcome' = "complete"
    /\ UNCHANGED <<config, outside, places, info, flags, i, cpt, npts, point_ok,
                   hardware, seen>>
    /\ UNCHANGED publish

\* ------------------------------------------------------------ environment
\* another client of the store writes one of the request keys: abort and pause
\* at any moment of the run (the GUI's onAbort, onPause, onResume, onStart), a
\* request to resume while the scan is paused
StoreWrite ==
    /\ scandb
    /\ pc \notin {"idle", "done"}
    /\ \E k \in FlagKeys :
          /\ k = "request_resume" => pc = "paused"
          /\ info' = [info EXCEPT ![k] = ~info[k]]
    /\ UNCHANGED <<pc, outcome, config, outside, places, flags, i, cpt, npts, point_ok,
                   complete, messenger, hardware, calls, seen>>
    /\ UNCHANGED publish

\* the macro window writes a request key while a scan runs
GuiWrite(k, v) ==
    /\ scandb
    /\ pc \notin {"idle", "done"}
    /\ info[k] # v
    /\ info' = [info EXCEPT ![k] = v]
    /\ UNCHANGED <<pc, outcome, config, outside, places, flags, i, cpt, npts, point_ok,
                   complete, messenger, hardware, calls, publish, seen>>

\* MacroFrame.onAbort: set_info('request_abort', 1)
onAbort == GuiWrite("request_abort", TRUE)

\* MacroFrame.onPause: set_info('request_pause', 1)
onPause == GuiWrite("request_pause", TRUE)

\* MacroFrame.onResume: set_info('request_pause', 0)
onResume == GuiWrite("request_pause", FALSE)

\* scandb.set_info raises in a write of the main task.  StepScan.set_info (lines
\* 219-223) has no handler, and neither have its callers: set_error (line 433,
\* from verify_scan), clear_interrupts (508), prepare_stepscan (563 after the
\* dwell times were set, 573 after the output was opened and first written),
\* the KeyboardInterrupt handler (703) and post_scan (347); the exception
\* leaves run_stepscan at the first write of the statement group
SetInfoRaises ==
    /\ scandb
    /\ pc \in {"verify", "prescan", "open", "post"} \cup TryPcs
    /\ Raise("StoreError")
    /\ calls' = Log(IF pc = "prescan" THEN CallAll("set_dwelltime", Detectors, 0, 560)
                     ELSE IF pc = "open"
                          THEN <<Call("open_output_file", 0, 0, 568),
                                 Call("write_data", 0, 0, 571)>>
                     ELSE <<>>)
    /\ pos_done' = at_rest(Positioners) /\ pos_timeout' = FALSE
    /\ trig_done' = at_rest(Triggers) /\ elapsed' = "short"
    /\ UNCHANGED <<config, outside, places, info, flags, i, cpt, npts, point_ok,
                   complete, messenger, publish, seen>>

\* a positioner reports done
PosArrive ==
    /\ pc = "poswait"
    /\ \E p \in Positioners :
          ~pos_done[p] /\ pos_done' = [pos_done EXCEPT ![p] = TRUE]
    /\ UNCHANGED <<pc, outcome, config, outside, places, info, flags, i, cpt, npts,
                   point_ok, complete, messenger, pos_timeout, trig_done, elapsed,
                   calls, seen>>
    /\ UNCHANGED publish

\* pos_maxmove_time has passed since the move was issued
PosTimeout ==
    /\ pc = "poswait"
    /\ ~pos_timeout
    /\ pos_timeout' = TRUE
    /\ UNCHANGED <<pc, outcome, config, outside, places, info, flags, i, cpt, npts,
                   point_ok, complete, messenger, pos_done, trig_done, elapsed, calls,
                   seen>>
    /\ UNCHANGED publish

\* a trigger reports done
TrigDone ==
    /\ pc = "trigwait"
    /\ \E t \in Triggers :
          ~trig_done[t] /\ trig_done' = [trig_done EXCEPT ![t] = TRUE]
    /\ UNCHANGED <<pc, outcome, config, outside, places, info, flags, i, cpt, npts,
                   point_ok, complete, messenger, pos_done, pos_timeout, elapsed, calls,
                   seen>>
    /\ UNCHANGED publish

\* time passes in the trigger wait: past 0.75*min_dwelltime ("ok"), then past
\* the wait bound 5*(1 + 2*max_dwelltime) ("over")
Tick ==
    /\ pc = "trigwait"
    /\ elapsed # "over"
    /\ elapsed' = IF elapsed = "short" THEN "ok" ELSE "over"
    /\ UNCHANGED <<pc, outcome, config, outside, places, info, flags, i, cpt, npts,
                   point_ok, complete, messenger, pos_done, pos_timeout, trig_done,
                   calls, seen>>
    /\ UNCHANGED publish

\* ------------------------------------------------------------ helper threads
\* what a step of a helper thread leaves alone: the state of the main task
main == <<pc, outcome, config, outside, places, info, flags, i, cpt, npts, point_ok,
          complete, message_thread, msg_cpt, published, hardware, calls,
          publish_thread, publishers, seen>>

\* ScanMessenger.run lines 152-153: the thread begins to run,
\* `last_point = self.cpt; t0 = time.time()`
RunStart ==
    /\ thr_pc = "start"
    /\ last_point' = msg_cpt
    /\ stale' = FALSE
    /\ thr_pc' = "poll"
    /\ UNCHANGED <<main, reported, progress, pub_pc>>

\* lines 155-160: after the poll, `if self.cpt != last_point:`,
\* `last_point = self.cpt; t0 = time.time()` and the test
\* `if self.cpt is not None and hasattr(self.func, '__call__'):` (self.func is
\* the bound method show_scan_progress).  The three reads of self.cpt are one
\* read here: a write of the main task between them leaves the thread where a
\* poll that began after the write would leave it
RunPoll ==
    /\ thr_pc = "poll"
    /\ IF msg_cpt # last_point
       THEN /\ last_point' = msg_cpt
            /\ stale' = FALSE
            /\ thr_pc' = IF msg_cpt # -1 THEN "call" ELSE "exit"
       ELSE thr_pc' = "exit" /\ UNCHANGED <<last_point, stale>>
    /\ UNCHANGED <<main, reported, progress, pub_pc>>

\* a progress function that stores the point it reports as the scan's cpt
show_scan_progress_sets_cpt(arg, fails) ==
    /\ reported' = reported \cup {arg}
    /\ progress' = progress
    /\ cpt' = arg
    /\ thr_pc' = "exit"

\* StepScan.show_scan_progress (lines 396-409) called with cpt=arg: `npts-cpt`
\* raises TypeError on None; set_info raises when the store fails; otherwise the
\* point goes to the store's progress keys and to the message callback
show_scan_progress(arg, fails) ==
    /\ IF arg = -1
       THEN thr_pc' = "raised" /\ reported' = reported \cup {arg}
                              /\ progress' = progress
       ELSE IF fails
       THEN thr_pc' = "raised" /\ reported' = reported /\ progress' = progress
       ELSE /\ thr_pc' = "exit" /\ reported' = reported \cup {arg}
            /\ progress' = set_progress([msg |-> "Point", cpt |-> arg])
    /\ cpt' = cpt

\* lines 161-162: `self.func(cpt=self.cpt, scan=self.scan, **self.func_kws)`;
\* an exception of the call ends the thread
RunCall ==
    /\ thr_pc = "call"
    /\ \E fails \in (IF scandb THEN BOOLEAN ELSE {FALSE}) :
          show_scan_progress(msg_cpt, fails)
    /\ UNCHANGED <<pc, outcome, config, outside, places, info, flags, i, npts,
                   point_ok, complete, message_thread, msg_cpt, published, hardware,
                   calls, publish, seen, last_point, stale>>

\* an exit test that knows only the sentinel
run_exit_sentinel_only(c, old) == c = -1

\* line 163: `if self.cpt is None or time.time()-t0 > self.timeout: return`
run_exit(c, old) == c = -1 \/ old

RunExit ==
    /\ thr_pc = "exit"
    /\ thr_pc' = IF run_exit(msg_cpt, stale) THEN "returned" ELSE "poll"
    /\ UNCHANGED <<main, last_point, stale, reported, progress, pub_pc>>

\* more than ScanMessenger.timeout (3600 s) has passed since t0 was set
MessengerClock ==
    /\ thr_pc \in {"poll", "call", "exit"}
    /\ ~stale
    /\ stale' = TRUE
    /\ UNCHANGED <<main, thr_pc, last_point, reported, progress, pub_pc>>

\* lines 739-741, in a run whose threads are followed: the sentinel is written
StopMessenger ==
    /\ pc = "stop"
    /\ msg_cpt' = -1
    /\ pc' = "join"
    /\ UNCHANGED <<outcome, config, outside, places, info, flags, i, cpt, npts,
                   point_ok, complete, message_thread, published, thread, progress,
                   hardware, calls, publish, seen>>

\* lines 742-753, in a run whose threads are followed: join() returns once the
\* messenger thread has ended; scan_progress 'scan complete' (line 744);
\* run_stepscan returns
JoinMessenger ==
    /\ pc = "join"
    /\ thr_pc \in {"returned", "raised"}
    /\ message_thread' = "joined"
    /\ progress' = set_progress(Message("scan complete"))
    /\ pc' = "done" /\ outcome' = "complete"
    /\ UNCHANGED <<config, outside, places, info, flags, i, cpt, npts, point_ok,
                   complete, msg_cpt, published, thread, hardware, calls, publish,
                   seen>>

\* StepScan.set_all_scandata (lines 411-419) run by the publish thread: the
\* buffers of the counters are read and written to the store's scandata rows
set_all_scandata ==
    /\ stepwise
    /\ pub_pc = "running"
    /\ pub_pc' = "ended"
    /\ UNCHANGED <<main, thread, progress>>

Thread == RunStart \/ RunPoll \/ RunCall \/ RunExit

\* ------------------------------------------------------------ specification
Main ==
    \/ Run \/ VerifyFails \/ clear_interrupts \/ MoveToStart \/ PreScan
    \/ OpenOutput \/ StartMessenger \/ MoveToStartWait
    \/ EnterLoop \/ BeginPoint \/ PausePoll \/ PosWaitPoll \/ PosWaitExit
    \/ TrigWaitExit \/ Recheck \/ ReadPoint \/ EndPoint
    \/ Finish \/ FinalCheck \/ PostScan

Env ==
    \/ StoreWrite \/ SetInfoRaises \/ KeyboardInterrupt
    \/ PosArrive \/ PosTimeout \/ TrigDone \/ Tick

Next == Main \/ Env

Spec == Init /\ [][Next]_vars

\* the main task keeps running and the two clocks keep advancing
FairSpec == Spec /\ WF_vars(Main) /\ WF_vars(PosTimeout) /\ WF_vars(Tick)

\* runs of any length (no history, so no cap on the misfire retries), with the
\* main task running and the two clocks advancing
LoopSpec == LoopInit /\ [][Next]_vars

FairLoopSpec == LoopSpec /\ WF_vars(Main) /\ WF_vars(PosTimeout) /\ WF_vars(Tick)

\* runs of scans long enough to publish their data in the loop
PubSpec == PubInit /\ [][Next]_vars

\* a scan with a store and without breakpoints whose helper threads are followed
\* statement by statement
Followed(rec, lens) ==
    /\ Constructed(rec, TRUE, lens) /\ Elsewhere
    /\ scandb
    /\ breakpoints = {}

\* scans long enough to publish their data in the loop, with their history and
\* with both threads; the other client of the store is the macro window
ThreadsInit == Followed(TRUE, MaxThrPts..MaxThrPts)

ThreadsNext ==
    \/ Main \/ onAbort \/ onPause \/ onResume \/ SetInfoRaises \/ KeyboardInterrupt
    \/ PosArrive \/ PosTimeout \/ TrigDone \/ Tick
    \/ StopMessenger \/ JoinMessenger \/ Thread \/ MessengerClock
    \/ set_all_scandata

ThreadsSpec == ThreadsInit /\ [][ThreadsNext]_vars

\* short scans (the publish thread starts at the third point) with the
\* messenger thread
MsgInit == Followed(FALSE, MaxMsgPts..MaxMsgPts)

MsgNext == Next \/ StopMessenger \/ JoinMessenger \/ Thread \/ MessengerClock

MsgSpec == MsgInit /\ [][MsgNext]_vars

\* the messenger thread keeps running and its clock advances; nothing is asked
\* of the main task
FairMsgSpec == MsgSpec /\ WF_vars(Thread) /\ WF_vars(MessengerClock)

\* ------------------------------------------------------------ the store
\* a scan that was constructed with a store and is not run
Idle ==
    /\ Constructed(FALSE, FALSE, MaxPts..MaxPts)
    /\ scandb
    /\ \A p \in Positioners : inlimits[p]
    /\ breakpoints = {}

\* `self.query(table).filter(cls.key==key).all()`
with_key(tbl, key) == SelectSeq(tbl, LAMBDA r : r.key = key)

\* ScanDB.get_info lines 380-385 on the text of a number or on None:
\* `int(float(out))`, `bool(int(out))`, None read as 0
coerced(out, mode) ==
    IF mode = "as_int" THEN (IF out = "None" THEN "0" ELSE out)
    ELSE IF mode = "as_bool" THEN (IF out \in {"None", "0"} THEN "False" ELSE "True")
    ELSE out

\* a get_info that returns the default of an absent key without adding the key
get_info_no_insert(tbl, key, default, mode) ==
    LET vals == with_key(tbl, key) IN
    IF Len(vals) = 0
    THEN [rows |-> tbl, kind |-> "value",
          out |-> IF mode = "full_row" THEN "None" ELSE coerced(default, mode)]
    ELSE [rows |-> tbl, kind |-> IF mode = "full_row" THEN "row" ELSE "value",
          out |-> IF mode = "full_row" THEN vals[1].value
                  ELSE coerced(vals[1].value, mode)]

\* ScanDB.get_info (lines 352-390) with a key: the table after the call, and what
\* the call returns (a value, a row, or the exception of None_or_one).  as_int
\* goes before as_bool and as_bool before full_row; full_row on an absent key
\* returns thisrow, which is None
get_info(tbl, key, default, mode) ==
    LET vals == with_key(tbl, key) IN
    IF Len(vals) > 1
    THEN [rows |-> tbl, kind |-> "ScanDBException", out |-> "None"]
    ELSE IF Len(vals) = 0
    THEN [rows |-> Append(tbl, [key |-> key, value |-> default]), kind |-> "value",
          out |-> IF mode = "full_row" THEN "None" ELSE coerced(default, mode)]
    ELSE [rows |-> tbl, kind |-> IF mode = "full_row" THEN "row" ELSE "value",
          out |-> IF mode = "full_row" THEN vals[1].value
                  ELSE coerced(vals[1].value, mode)]

\* a set_info that leaves a key that exists as it is
scandb_set_info_first_wins(tbl, key, value) ==
    IF Len(with_key(tbl, key)) < 1
    THEN Append(tbl, [key |-> key, value |-> value])
    ELSE tbl

\* ScanDB.set_info (lines 446-458): insert when no row has the key, otherwise
\* update where key = key
scandb_set_info(tbl, key, value) ==
    IF Len(with_key(tbl, key)) < 1
    THEN Append(tbl, [key |-> key, value |-> value])
    ELSE [j \in DOMAIN tbl |->
            IF tbl[j].key = key THEN [key |-> key, value |-> value] ELSE tbl[j]]

\* a client calls get_info(key, default, as_int/as_bool/full_row)
GetInfo ==
    /\ \E key \in Keys, default \in Values, mode \in Modes :
          LET r == get_info(rows, key, default, mode) IN
             /\ rows' = r.rows
             /\ lastop' = [name |-> "get_info", key |-> key, value |-> default,
                           mode |-> mode, kind |-> r.kind, out |-> r.out]
    /\ UNCHANGED <<scanvars, registry, apart, written, commands, fetched, macro, epics>>

\* a client calls set_info(key, value)
SetInfo ==
    /\ \E key \in Keys, value \in Values :
          /\ rows' = scandb_set_info(rows, key, value)
          /\ written' = [written EXCEPT ![key] = value]
          /\ lastop' = [name |-> "set_info", key |-> key, value |-> value,
                        mode |-> "plain", kind |-> "value", out |-> "None"]
    /\ UNCHANGED <<scanvars, registry, apart, commands, fetched, macro, epics>>

InfoInit == Idle /\ Elsewhere

InfoNext == GetInfo \/ SetInfo

InfoSpec == InfoInit /\ [][InfoNext]_vars

\* ------------------------------------------------------------ macro calls
\* the functions enable_abort puts in place of larch's
MacroOps == {"caget", "caput", "PV"}

\* ScanDB.test_abort (lines 1104-1106): `return self.get_info('request_abort',
\* as_bool=True)`
test_abort(tbl) == get_info(tbl, "request_abort", "None", "as_bool")

\* the call of epics.caget / caput / get_pv that ends a macro call, made after
\* wait_for_pause has returned: `paused` is what its last read of request_pause
\* gave, `late` whether its timeout had passed
epics_call(paused, late) ==
    /\ epics' = epics \cup {[name |-> macro.name, abort |-> macro.abort]}
    /\ macro' = [pc |-> "idle", name |-> "none", abort |-> FALSE, paused |-> paused,
                 late |-> late]

\* a wait that is over after its first poll
still_paused_never(out, late) == FALSE

\* `paused` of wait_for_pause: line 1110, and with the time test of lines
\* 1116-1117 inside the loop
still_paused(out, late) == out = "True" /\ ~late

\* LarchScanDBServer.enable_abort (lines 81-102): caget, caput or PV is called
\* by a macro; check_abort_pause (77-79) calls test_abort and drops what it
\* returns
check_abort_pause ==
    /\ macro.pc = "idle"
    /\ \E name \in MacroOps :
          LET r == test_abort(rows) IN
             /\ rows' = r.rows
             /\ lastop' = [name |-> "get_info", key |-> "request_abort",
                           value |-> "None", mode |-> "as_bool", kind |-> r.kind,
                           out |-> r.out]
             /\ macro' = [pc |-> "tested", name |-> name, abort |-> r.out = "True",
                          paused |-> FALSE, late |-> FALSE]
    /\ UNCHANGED <<scanvars, registry, apart, written, commands, fetched, epics>>

\* ScanDB.wait_for_pause (lines 1108-1118): the first read of request_pause, or
\* a round of its loop (`late`: the timeout of a day has passed); when it
\* returns the EPICS call is made
wait_for_pause ==
    /\ macro.pc \in {"tested", "waiting"}
    /\ \E late \in (IF macro.pc = "waiting" THEN BOOLEAN ELSE {FALSE}) :
          LET r == get_info(rows, "request_pause", "None", "as_bool") IN
             /\ rows' = r.rows
             /\ lastop' = [name |-> "get_info", key |-> "request_pause",
                           value |-> "None", mode |-> "as_bool", kind |-> r.kind,
                           out |-> r.out]
             /\ IF still_paused(r.out, late)
                THEN macro' = [macro EXCEPT !.pc = "waiting"] /\ epics' = epics
                ELSE epics_call(r.out = "True", late)
    /\ UNCHANGED <<scanvars, registry, apart, written, commands, fetched>>

MacroInit == Idle /\ Elsewhere

MacroNext == SetInfo \/ check_abort_pause \/ wait_for_pause

MacroSpec == MacroInit /\ [][MacroNext]_vars

\* ------------------------------------------------------------ the command queue
\* one client (one session).  A command is a row of the commands table once the
\* session was flushed (`stored`); until then it is a pending object of the
\* session.  The id is the place in the order of the adds, which is the order in
\* which a flush inserts.  `missed` records that cancel_remaining_commands has
\* run while the command was pending.
Orders == 0..MaxOrder

\* the rows of the table that pass the status filter of get_commands
selected(tbl, status) ==
    {tbl[j] : j \in {n \in DOMAIN tbl :
                       tbl[n].stored /\ (status = "any" \/ tbl[n].status = status)}}

\* `order_by(order)`: the column of line 969-971, descending when reverse
in_order(a, b, reverse, orderby) ==
    LET ka == IF orderby = "run_order" THEN a.run_order ELSE a.id
        kb == IF orderby = "run_order" THEN b.run_order ELSE b.id
    IN IF reverse THEN ka >= kb ELSE ka <= kb

\* ScanDB.get_commands (lines 965-980): what `q.execute().fetchall()` can
\* return: every ordering of the selected rows that follows the one column of
\* order_by; the database settles the order of rows that are equal in it
get_commands_results(tbl, status, reverse, orderby) ==
    LET S == selected(tbl, status) IN
    {sq \in [1..Cardinality(S) -> S] :
        /\ \A a, b \in DOMAIN sq : a # b => sq[a] # sq[b]
        /\ \A a, b \in DOMAIN sq : a < b => in_order(sq[a], sq[b], reverse, orderby)}

\* ScanDB.add_command (lines 990-1011), run_order given as a keyword: the new
\* object gets status_id 'requested' and is added to the session; nothing is
\* flushed
add_command ==
    /\ Len(commands) < MaxCmds
    /\ \E ro \in Orders :
          commands' = Append(commands, [id |-> Len(commands) + 1, run_order |-> ro,
                                        status |-> "requested", stored |-> FALSE,
                                        missed |-> FALSE])
    /\ UNCHANGED <<scanvars, registry, apart, rows, lastop, written, fetched, macro, epics>>

\* ScanDB.commit (lines 283-285), `self.session.flush()`: the pending objects
\* become rows.  The callers of add_command call it (edit_macros.py lines 514,
\* 605); a session.query of the same client (get_info, set_info) flushes too
commit ==
    /\ \E j \in DOMAIN commands : ~commands[j].stored
    /\ commands' = [j \in DOMAIN commands |-> [commands[j] EXCEPT !.stored = TRUE]]
    /\ UNCHANGED <<scanvars, registry, apart, rows, lastop, written, fetched, macro, epics>>

\* ScanDB.set_command_run_order (lines 1051-1054): an update of the row
set_command_run_order ==
    /\ \E cmdid \in DOMAIN commands, ro \in Orders :
          /\ commands[cmdid].stored
          /\ commands[cmdid].run_order # ro
          /\ commands' = [commands EXCEPT ![cmdid].run_order = ro]
    /\ UNCHANGED <<scanvars, registry, apart, rows, lastop, written, fetched, macro, epics>>

\* ScanDB.set_command_status (lines 1035-1049), as the server uses it for the
\* command it runs
set_command_status ==
    /\ \E cmdid \in DOMAIN commands, status \in {"running", "finished"} :
          /\ commands[cmdid].stored
          /\ commands[cmdid].status # status
          /\ commands' = [commands EXCEPT ![cmdid].status = status]
    /\ UNCHANGED <<scanvars, registry, apart, rows, lastop, written, fetched, macro, epics>>

\* ScanDB.cancel_remaining_commands (lines 1093-1102): the table after the
\* call.  The select and the updates go to the table, not through the session:
\* pending objects are not seen
canceled_remaining(tbl) ==
    [j \in DOMAIN tbl |->
        IF tbl[j].stored
        THEN (IF tbl[j].status = "requested"
              THEN [tbl[j] EXCEPT !.status = "canceled"] ELSE tbl[j])
        ELSE [tbl[j] EXCEPT !.missed = TRUE]]

cancel_remaining_commands ==
    /\ canceled_remaining(commands) # commands
    /\ commands' = canceled_remaining(commands)
    /\ UNCHANGED <<scanvars, registry, apart, rows, lastop, written, fetched, macro, epics>>

\* a client calls get_commands(status, reverse, orderby)
get_commands ==
    /\ \E status \in {"any", "requested", "canceled"}, reverse \in BOOLEAN,
          orderby \in {"run_order", "id"} :
          \E sq \in get_commands_results(commands, status, reverse, orderby) :
             fetched' = [status |-> status, reverse |-> reverse,
                         orderby |-> orderby, rows |-> sq]
    /\ UNCHANGED <<scanvars, registry, apart, rows, lastop, written, commands, macro, epics>>

CmdInit == Idle /\ Elsewhere

CmdNext ==
    \/ add_command \/ commit \/ set_command_run_order \/ set_command_status
    \/ cancel_remaining_commands \/ get_commands

CmdSpec == CmdInit /\ [][CmdNext]_vars

\* ------------------------------------------------------------ the message queue
\* ScanDB.set_message (lines 440-444): a row is added to the messages table
set_message ==
    /\ messages < MaxMsgs
    /\ messages' = messages + 1
    /\ UNCHANGED <<scanvars, store, registry, poller, db_messages, got, delivered>>

\* `scandb.query(sqlfunc.max(self.cls.id)).one()[0]` on a table of n rows: None
\* (-1) for a table without rows
max_id(n) == IF n = 0 THEN -1 ELSE n

\* ScanDBMessageQueue.__init__ (lines 49-54)
ScanDBMessageQueue ==
    /\ ~db_messages.made
    /\ db_messages' = [made |-> TRUE, first |-> messages, last_id |-> max_id(messages)]
    /\ UNCHANGED <<scanvars, store, registry, poller, messages, got, delivered>>

\* lines 57-61: the rows with id > last_id in the order of their ids; [None]
\* when the format "%i" of last_id raises TypeError (last_id is None)
new_messages(last_id, n) ==
    IF last_id = -1 THEN <<-1>>
    ELSE [k \in 1..(n - last_id) |-> last_id + k]

\* ScanDBMessageQueue.get_new_messages (lines 56-64) called by
\* MacroFrame.update_info (lines 383-385), which writes out every message that
\* is not None
get_new_messages ==
    /\ db_messages.made
    /\ LET out == new_messages(db_messages.last_id, messages) IN
          /\ got' = out
          /\ IF db_messages.last_id # -1 /\ Len(out) > 0
             THEN /\ db_messages' = [db_messages EXCEPT !.last_id = out[Len(out)]]
                  /\ delivered' = delivered \o out
             ELSE UNCHANGED <<db_messages, delivered>>
    /\ UNCHANGED <<scanvars, store, registry, poller, messages>>

QueueInit == Idle /\ Elsewhere

QueueNext == set_message \/ ScanDBMessageQueue \/ get_new_messages

QueueSpec == QueueInit /\ [][QueueNext]_vars

\* ------------------------------------------------------------ the file worker
\* AD_Eiger.custom_pre_scan (lines 341-361) in the pre_scan phase of a scan:
\* `self.set_state('starting')`
custom_pre_scan ==
    /\ det_scan.phase \in {"none", "finished"}
    /\ det_scan.n < MaxScans
    /\ det_scan' = [n |-> det_scan.n + 1, phase |-> "started"]
    /\ dev_status' = [val |-> "starting", scan |-> det_scan.n + 1]
    /\ UNCHANGED <<scanvars, store, registry, gui, worker, integrates>>

\* AD_Eiger.post_scan (lines 363-365): `self.set_state('finishing')`
eiger_post_scan ==
    /\ det_scan.phase = "started"
    /\ det_scan' = [det_scan EXCEPT !.phase = "finished"]
    /\ dev_status' = [val |-> "finishing", scan |-> det_scan.n]
    /\ UNCHANGED <<scanvars, store, registry, gui, worker, integrates>>

\* EigerFileCopier.run lines 276-277 (AD_Integrator.run lines 92-93): after the
\* sleep the status is read
get_state ==
    /\ worker.pc = "sleep"
    /\ worker' = [worker EXCEPT !.pc = "act", !.state = dev_status]
    /\ UNCHANGED <<scanvars, store, registry, gui, dev_status, det_scan, integrates>>

\* EigerFileCopier.integrate (lines 239-244) in the branch of `state`
integrate(state) ==
    integrates \cup {[scan |-> state.scan, config |-> worker.config,
                      final |-> state.val = "finishing"]}

\* EigerFileCopier.run lines 278-290 (AD_Integrator.run lines 95-105, where the
\* status 'scanning' is named 'running'): the branch of the status that was read
run_branch ==
    /\ worker.pc = "act"
    /\ LET state == worker.state IN
          CASE state.val = "starting" ->
                 /\ worker' = [worker EXCEPT !.pc = "sleep", !.config = state.scan]
                 /\ dev_status' = [val |-> "scanning", scan |-> state.scan]
                 /\ UNCHANGED integrates
            [] state.val = "scanning" ->
                 /\ integrates' = integrate(state)
                 /\ worker' = [worker EXCEPT !.pc = "sleep"]
                 /\ UNCHANGED dev_status
            [] state.val = "finishing" ->
                 /\ integrates' = integrate(state)
                 /\ dev_status' = [val |-> "idle", scan |-> state.scan]
                 /\ worker' = [worker EXCEPT !.pc = "sleep"]
            [] OTHER ->
                 /\ worker' = [worker EXCEPT !.pc = "sleep"]
                 /\ UNCHANGED <<dev_status, integrates>>
    /\ UNCHANGED <<scanvars, store, registry, gui, det_scan>>

WorkerInit == Idle /\ Elsewhere

WorkerNext == custom_pre_scan \/ eiger_post_scan \/ get_state \/ run_branch

WorkerSpec == WorkerInit /\ [][WorkerNext]_vars

\* the worker's loop keeps running; nothing is asked of the scans
FairWorkerSpec == WorkerSpec /\ WF_vars(get_state) /\ WF_vars(run_branch)

\* ------------------------------------------------------------ registration
\* a list without the members it already has twice
NoDup(sq) == \A a, b \in DOMAIN sq : a # b => sq[a] # sq[b]

\* an append that does not look at the list
append_always(sq, x) == Append(sq, x)

\* `if x not in self.xs: self.xs.append(x)`
append_new(sq, x) == IF \E j \in DOMAIN sq : sq[j] = x THEN sq ELSE Append(sq, x)

\* the trigger and the counters of a detector
det_trigger(d) == d
det_counters(d) == Counters

\* StepScan.add_counter (lines 251-257)
add_counter ==
    /\ \E c \in Counters :
          /\ lists' = [lists EXCEPT !.counters = append_new(@, c)]
          /\ lastreg' = [name |-> "add_counter", arg |-> c, before |-> verified]
    /\ verified' = FALSE
    /\ UNCHANGED <<scanvars, store, apart, hooks>>

\* StepScan.add_trigger (lines 259-267); 0 stands for None
add_trigger ==
    /\ \E t \in Triggers \cup {0} :
          /\ lastreg' = [name |-> "add_trigger", arg |-> t, before |-> verified]
          /\ IF t = 0
             THEN UNCHANGED <<lists, verified>>
             ELSE /\ lists' = [lists EXCEPT !.triggers = append_new(@, t)]
                  /\ verified' = FALSE
    /\ UNCHANGED <<scanvars, store, apart, hooks>>

\* StepScan.add_positioner (lines 282-291)
add_positioner ==
    /\ Len(hooks) < MaxHooks
    /\ \E p \in Positioners :
          /\ hooks' = Append(hooks, [kind |-> "pos", id |-> p])
          /\ lists' = [lists EXCEPT !.positioners = append_new(@, p)]
          /\ lastreg' = [name |-> "add_positioner", arg |-> p, before |-> verified]
    /\ verified' = FALSE
    /\ UNCHANGED <<scanvars, store, apart>>

\* StepScan.add_detector (lines 293-307), with its calls of add_trigger and
\* add_counter
add_detector ==
    /\ Len(hooks) < MaxHooks
    /\ \E d \in Detectors :
          /\ hooks' = Append(hooks, [kind |-> "det", id |-> d])
          /\ lists' = [lists EXCEPT
                          !.triggers = append_new(@, det_trigger(d)),
                          !.counters = append_new(@, CHOOSE c \in det_counters(d) : TRUE),
                          !.detectors = append_new(@, d)]
          /\ lastreg' = [name |-> "add_detector", arg |-> d, before |-> verified]
    /\ verified' = FALSE
    /\ UNCHANGED <<scanvars, store, apart>>

\* the scan is marked as validated: `scan.verified = True`
MarkVerified ==
    /\ ~verified
    /\ verified' = TRUE
    /\ lastreg' = [name |-> "verified", arg |-> 0, before |-> FALSE]
    /\ UNCHANGED <<scanvars, store, apart, lists, hooks>>

\* a scan as StepScan.__init__ leaves it (lines 187, 206-215)
RegInit ==
    /\ Idle /\ EmptyStore /\ Polling
    /\ verified = FALSE
    /\ lists = [positioners |-> <<>>, triggers |-> <<>>, counters |-> <<>>,
                detectors |-> <<>>]
    /\ hooks = <<>>
    /\ lastreg = [name |-> "__init__", arg |-> 0, before |-> FALSE]

RegNext == add_counter \/ add_trigger \/ add_positioner \/ add_detector \/ MarkVerified

RegSpec == RegInit /\ [][RegNext]_vars

\* ------------------------------------------------------------ the call history
\* the arguments of the calls issued at a source line to the first member of a
\* list, in the order of the calls
Args(cs, line) ==
    LET sel == SelectSeq(cs, LAMBDA c : c.line = line /\ c.who \in {0, 1})
    IN [k \in DOMAIN sel |-> sel[k].arg]

\* the number of calls issued at a source line to `who` with argument `arg`
NCalls(cs, line, who, arg) ==
    Cardinality({k \in DOMAIN cs :
                   cs[k].line = line /\ cs[k].who = who /\ cs[k].arg = arg})

\* the sequence 0, 1, ..., n-1
Upto(n) == [k \in 1..n |-> k - 1]

\* run_stepscan has ended with a return or with ScanDBAbort
Ended == pc = "done" /\ outcome \in {"complete", "ScanDBAbort"}

\* ------------------------------------------------------------ abort
\* C1: when request_abort was true in the store during the point loop (here:
\* some interrupt sample of the run read it true), the run ends with
\* ScanDBAbort, never with a normal return, after exactly one return move of
\* every positioner and exactly one closing write_data.
C1_AbortEndsAborted ==
    (pc = "done" /\ seen.observed) =>
        /\ outcome = "ScanDBAbort"
        /\ \A p \in Positioners : NCalls(calls, 725, p, orig_positions[p]) = 1
        /\ NCalls(calls, 727, 0, -1) = 1

\* C2: when the interrupt sample at the start of a point, or a sample taken
\* in the pause loop, reads abort=true, the loop goes to the finishing phase
\* at once: no move_to_pos and no trigger start is issued for the point.
C2_AbortAtStartExits ==
    [][((BeginPoint \/ PausePoll) /\ abort') => (pc' = "finish" /\ calls' = calls)]_vars

\* C3: abort is sticky: once an interrupt sample of the run has read abort=true
\* no counter is read and cpt does not advance any more, also when another
\* client resets request_abort in the store before the next sample.
C3_AbortSticky ==
    [][seen.observed =>
          (cpt' = cpt /\ Len(Args(calls', 688)) = Len(Args(calls, 688)))]_vars

\* C4: a run whose point loop was left because of an abort never runs the
\* post_scan hooks and never sets complete.
C4_NoPostScanAfterAbort ==
    seen.exit \in {"abort", "break"} =>
        (~complete /\ Len(Args(calls, 348)) = 0)

\* ------------------------------------------------------------ pause
\* the point indices moved to, triggered and read so far, in order
Moved == Args(calls, 641)
Started == Args(calls, 659)
Read == Args(calls, 688)

\* C5: in a run without misfire retry, whatever the pause and un-pause events,
\* the loop neither skips nor repeats a point: the indices moved to, triggered
\* and read are 0, 1, 2, ... in increasing order, each once; while the loop is
\* paused at point i, cpt stays i+1 and exactly the points before i have been
\* moved to; after the pause the move is the one to i; a loop that ran to its
\* end has moved to, triggered and read every index 0..npts-1.
C5_PauseKeepsPoint ==
    Retries(calls) = 0 =>
        /\ Moved = Upto(Len(Moved))
        /\ Started = Upto(Len(Started))
        /\ Read = Upto(Len(Read))
        /\ pc = "paused" => (cpt = i + 1 /\ Len(Moved) = i /\ Len(Read) = i)
        /\ pc = "poswait" => (cpt = i + 1 /\ Len(Moved) = i + 1 /\ Len(Started) = i)
        /\ pc \in {"trigwait", "recheck", "read"} =>
              (cpt = i + 1 /\ Len(Started) = i + 1 /\ Len(Read) = i)
        /\ seen.exit = "end" =>
              (Len(Moved) = npts /\ Len(Started) = npts /\ Len(Read) = npts)

\* C5 witness: a loop that was paused (request_resume is written only while
\* the loop is paused), saw no abort and no retry, and ran to its end
C5_Witness ==
    /\ seen.exit = "end" /\ npts = 2 /\ Retries(calls) = 0
    /\ info["request_resume"] /\ ~seen.observed
    /\ Read = <<0, 1>>

\* C6 as stated: a poll in the paused state that reads request_resume true
\* clears pause and ends the pause
C6_ResumeEndsPause ==
    [][(PausePoll /\ info["request_resume"]) => (pc' # "paused" /\ ~pause')]_vars

\* C6 amended: a poll in the paused state ends the pause exactly when it reads
\* request_pause false or request_abort true, whatever request_resume reads;
\* the loop then goes on with the point at which it paused (the move to i)
C6_PauseEndsWhenPauseCleared ==
    [][PausePoll =>
          /\ (pc' = "paused") <=> (info["request_pause"] /\ ~info["request_abort"])
          /\ i' = i /\ cpt' = cpt
          /\ pc' # "paused" =>
                (pc' = "poswait" /\
                 calls' = calls \o CallAll("move_to_pos", Positioners, i, 641))]_vars

\* C6 witness: a poll in the paused state has read request_resume true and the
\* loop is still paused
C6_Witness ==
    pc = "paused" /\ resume /\ pause /\ info["request_resume"]

\* ------------------------------------------------------------ cpt
\* C7: cpt never decreases from one step of the run to the next (a misfire
\* retry repeats the value) and never exceeds npts
C7_CptMonotone ==
    [][cpt' >= cpt /\ cpt' <= npts']_vars

\* C7 witness: the last point is under way again after a misfire retry
C7_Witness ==
    pc = "poswait" /\ cpt = npts /\ npts = 2 /\ Retries(calls) > 0

\* ------------------------------------------------------------ validation
\* the scan definitions verify_scan has to reject: positioner arrays of
\* different lengths, or an array outside of its limits
Invalid ==
    \/ \E p, q \in Positioners : arrlen[p] # arrlen[q]
    \/ \E p \in Positioners : ~inlimits[p]

\* C8: a run of an invalid scan definition is rejected before any side effect:
\* no call to a positioner, trigger, detector, hook or output file is issued,
\* the messenger thread is not started, cpt and npts stay as constructed, and
\* neither the point loop nor the finishing phase is entered
C8_RejectedBeforeSideEffects ==
    Invalid =>
        /\ calls = <<>>
        /\ message_thread = "None"
        /\ pc \in {"idle", "verify", "done"}
        /\ pc = "done" => outcome \in {"AttributeError", "StoreError"}
        /\ ~complete /\ cpt = 0 /\ npts = 0

\* C8 witness: a run with positioner arrays of different lengths has ended
C8_Witness ==
    /\ pc = "done"
    /\ arrlen[1] # arrlen[2]
    /\ \A p \in Positioners : inlimits[p]
    /\ info["last_error"] = "Inconsistent positioner array length"

\* ------------------------------------------------------------ breakpoints
\* C9: write_data is invoked exactly once for each breakpoint index the loop
\* reached (read the counters of), never for another index, and exactly once
\* more, closing the file, in a run that ended; for every combination of
\* misfire retries and interrupts
C9_WriteOncePerBreakpoint ==
    /\ \A b \in 0..(MaxPts - 1) :
          NCalls(calls, 319, 0, b) =
             IF b \in breakpoints /\ NCalls(calls, 688, 1, b) > 0 THEN 1 ELSE 0
    /\ NCalls(calls, 727, 0, -1) <= 1
    /\ Ended => NCalls(calls, 727, 0, -1) = 1

\* ------------------------------------------------------------ misfire
\* C10 as stated: a point goes on to be read without retry only if the misfire
\* check saw every trigger done and more than 0.75*min_dwelltime elapsed
C10_AcceptedOnlyIfDoneAndElapsed ==
    (pc = "read" /\ point_ok) => seen.primary = "ok"

\* C10 amended: a point goes on to be read without retry only if the misfire
\* check saw every trigger done and more than 0.75*min_dwelltime elapsed, or
\* the runtime of every trigger exceeds 0.8*min_dwelltime at the second check;
\* a point that fails both is retried
C10_AcceptedOnlyIfCheckOrRuntime ==
    pc = "read" =>
        (point_ok <=> (seen.primary = "ok" \/ seen.runtime = "ok"))

\* C10 witness: a point with a trigger that is not done goes on without retry
C10_Witness ==
    pc = "read" /\ point_ok /\ seen.primary = "not done" /\ seen.runtime = "ok"

\* ------------------------------------------------------------ retry
\* the number of places k at which a sequence of indices repeats its entry
Repeats(sq) == Cardinality({k \in 1..(Len(sq) - 1) : sq[k + 1] = sq[k]})

\* a sequence of indices that starts at 0 and goes on by steps of 0 or 1
Gapless(sq) ==
    /\ Len(sq) > 0 => sq[1] = 0
    /\ \A k \in 1..(Len(sq) - 1) : sq[k + 1] \in {sq[k], sq[k] + 1}

\* C11: a point judged not well-formed goes through the retry branch before the
\* next iteration: once point_ok is false the try block ends with it false, the
\* step that leaves the end of the point then calls abort() on every trigger and
\* pre_scan on every detector, and an iteration that follows it uses the same
\* index i; over the run no index is skipped, and an index is repeated only by
\* such a retry
C11_RetrySamePoint ==
    [][/\ (pc \in {"read", "endpt"} /\ ~point_ok) =>
             /\ ~point_ok'
             /\ pc' \in {"read", "endpt", "point", "finish", "done"}
             /\ pc' \in {"point", "finish"} =>
                   /\ calls' = calls \o CallAll("trig.abort", Triggers, i, 709)
                                     \o CallAll("det.pre_scan", Detectors, i, 711)
                   /\ pc' = "point" => i' = i
        /\ Gapless(Args(calls', 641))
        /\ Repeats(Args(calls', 641)) <= Retries(calls')]_vars

\* C11 witness: the second point is under way for the second time
C11_Witness ==
    pc = "trigwait" /\ Args(calls, 641) = <<0, 1, 1>> /\ Retries(calls) = 1

\* C12: a point is not retried forever: from some moment on no retry is
\* pending (the state in which the loop starts an iteration with the point_ok
\* of a misfire)
C12_RetriesEnd ==
    <>[](~(pc = "point" /\ ~point_ok))

\* ------------------------------------------------------------ counter reads
\* C13: a run that was not aborted and ended normally has read every counter
\* exactly npts times and recorded exactly npts actual positions, also after
\* misfire retries
C13_ReadOncePerPoint ==
    (pc = "done" /\ outcome = "complete" /\ seen.exit = "end" /\ ~seen.observed) =>
        /\ \A c \in Counters :
              Cardinality({k \in DOMAIN calls :
                             calls[k].line = 688 /\ calls[k].who = c}) = npts
        /\ Len(Args(calls, 691)) = npts

\* the number of calls of an operation on `who`
NOp(cs, op, who) ==
    Cardinality({k \in DOMAIN cs : cs[k].op = op /\ cs[k].who = who})

\* C14: a run without interrupt and without misfire that ran to its end has
\* read every counter exactly npts times, for the indices 0..npts-1 in order,
\* opened the output once, closed it once, invoked every post_scan hook once and
\* issued one return move to every positioner; the return moves and the closing
\* write come after the last read and before the post_scan hooks
C14_PlainRun ==
    (pc = "done" /\ outcome = "complete" /\ seen.exit = "end" /\ ~seen.observed
       /\ Retries(calls) = 0) =>
        /\ \A c \in Counters :
              Cardinality({k \in DOMAIN calls :
                             calls[k].line = 688 /\ calls[k].who = c}) = npts
        /\ Args(calls, 688) = Upto(npts)
        /\ NCalls(calls, 568, 0, 0) = 1
        /\ NCalls(calls, 727, 0, -1) = 1
        /\ \A p \in Positioners :
              /\ NCalls(calls, 725, p, orig_positions[p]) = 1
              /\ NOp(calls, "pos.post_scan", p) = 1
        /\ \A d \in Detectors : NOp(calls, "det.post_scan", d) = 1
        /\ \A k, m \in DOMAIN calls :
              /\ (calls[k].line = 688 /\ calls[m].line \in {725, 727}) => k < m
              /\ (calls[k].line \in {725, 727} /\ calls[m].line = 348) => k < m

\* C14 witness: a run of two points with one breakpoint, never paused, ended
\* normally
C14_Witness ==
    /\ pc = "done" /\ outcome = "complete" /\ seen.exit = "end"
    /\ npts = 2 /\ breakpoints = {1} /\ Retries(calls) = 0
    /\ ~info["request_pause"] /\ ~info["request_resume"] /\ ~seen.observed

\* ------------------------------------------------------------ messenger thread
\* C15: whenever run_stepscan has returned or raised after the messenger thread
\* was started, the thread's cpt has been set to the None sentinel and the
\* thread has been joined
C15_MessengerStopped ==
    (pc = "done" /\ message_thread # "None") =>
        (msg_cpt = -1 /\ message_thread = "joined")

\* ------------------------------------------------------------ publish thread
\* C16: at every moment of a run at most one execution of set_all_scandata is
\* in progress: a publish thread started in the loop has been joined before
\* another publish, the final one included, begins, on every exit path of the
\* loop
C16_OnePublishAtATime ==
    /\ publishers <= 1
    /\ pc \in {"finish", "point"} => publish_thread # "alive"

\* ------------------------------------------------------------ hook results
\* C17: a true value returned by a pre_scan, post_scan or at_break hook makes the
\* run raise its run-level error (Warning): once an at_break hook has returned a
\* true value at a breakpoint the run has stopped with that error
C17_HookFailureStops ==
    seen.break_failed => (pc = "done" /\ outcome = "Warning")

\* ------------------------------------------------------------ store failure
\* C18: a store write that fails does not abort the scan: no run ends with the
\* exception of a failed set_info
C18_StoreFailureAbsorbed ==
    outcome # "StoreError"

\* ------------------------------------------------------------ the two waits
\* C19: the trigger wait re-samples the interrupt flags: whenever request_abort
\* is true in the store during the trigger wait, the wait can end at its next
\* poll, whether or not the triggers are done or the wait bound is up
C19_AbortEndsTriggerWait ==
    (pc = "trigwait" /\ info["request_abort"]) => ENABLED TrigWaitExit

\* C20: the triggers of point i are started only after move_to_pos(i) was
\* issued to every positioner and either every positioner has reported done or
\* pos_maxmove_time is up
C20_StartAfterMoveDone ==
    [][(pc' = "trigwait" /\ pc # "trigwait") =>
          /\ pc = "poswait"
          /\ (\A p \in Positioners : pos_done[p]) \/ pos_timeout
          /\ \A p \in Positioners :
                \E k \in DOMAIN calls :
                    /\ calls[k] = Call("move_to_pos", p, i, 641)
                    /\ \A m \in DOMAIN calls : calls[m].line = 659 => m < k]_vars

\* ------------------------------------------------------------ C21
ThreadEnded == thr_pc \in {"returned", "raised"}

\* C21: a messenger thread that was started ends: run() is over (it returned, or
\* an exception of the progress call left it) some time after cpt was set to the
\* None sentinel, and some time after cpt stopped changing for longer than the
\* timeout, so that no run goes on forever; and run() returns only with cpt at
\* the sentinel or cpt unchanged for longer than the timeout
C21_MessengerEnds ==
    /\ [](thr_pc = "returned" => (msg_cpt = -1 \/ stale))
    /\ ((thr_pc # "none" /\ msg_cpt = -1) ~> ThreadEnded)
    /\ ((thr_pc # "none") ~> ThreadEnded)

\* run() has returned on the sentinel, within the timeout
C21_Witness == thr_pc = "returned" /\ msg_cpt = -1 /\ ~stale

\* ------------------------------------------------------------ C22
\* C22: no published point is lost: in a run that completed and whose messenger
\* thread has returned from run(), the progress function was executed with every
\* value the scan loop wrote to the messenger's cpt
C22_NoValueLost ==
    (pc = "done" /\ outcome = "complete" /\ thr_pc = "returned") =>
        published \subseteq reported

\* ------------------------------------------------------------ C23
\* a step of the messenger thread or of the publish thread
ThreadStep ==
    \/ thr_pc # "none" /\ thr_pc' # thr_pc
    \/ pub_pc = "running" /\ pub_pc' # pub_pc

\* C23: no step of the messenger thread or of the publish thread changes the
\* scan's cpt, its abort, pause and resume flags, the loop index, what was read
\* into the counter buffers and pos_actual (the history of reads), the request
\* keys of the store or the positions: such a step changes only the thread's own
\* state and what was reported
C23_ThreadsLeaveScanState ==
    [][ThreadStep =>
          UNCHANGED <<pc, outcome, cpt, npts, i, abort, pause, resume, point_ok,
                      complete, calls, info, msg_cpt, published, position,
                      orig_positions, publish_thread, publishers>>]_vars

\* the messenger thread has reported points and the publish thread has written
\* the data while the scan stands at its last point, paused
C23_Witness ==
    /\ reported # {} /\ pub_pc = "ended"
    /\ cpt = MaxThrPts /\ pc = "paused"

\* C24: a get_info of a key the table does not have adds exactly one row, the
\* key with the default, and returns the default: as it is, or with as_int or
\* as_bool as a number or a truth value in which None counts as 0 / False; a
\* get_info of a key the table has returns the stored value, coerced the same
\* way, and leaves the table as it was.
Present(tbl, key) == \E j \in DOMAIN tbl : tbl[j].key = key
Stored(tbl, key) == tbl[CHOOSE j \in DOMAIN tbl : tbl[j].key = key].value
Returned(v, mode, out) ==
    /\ mode = "plain" => out = v
    /\ mode = "as_int" => out = (IF v = "None" THEN "0" ELSE v)
    /\ mode = "as_bool" => (out = "True" <=> v = "1") /\ (out = "False" <=> v # "1")
C24_GetInfoDefault ==
    [][(lastop'.name = "get_info" /\ <<rows, lastop>>' # <<rows, lastop>>) =>
         /\ lastop'.kind # "ScanDBException"
         /\ IF Present(rows, lastop'.key)
            THEN /\ rows' = rows
                 /\ Returned(Stored(rows, lastop'.key), lastop'.mode, lastop'.out)
            ELSE /\ Len(rows') = Len(rows) + 1
                 /\ \A j \in DOMAIN rows : rows'[j] = rows[j]
                 /\ rows'[Len(rows')] = [key |-> lastop'.key, value |-> lastop'.value]
                 /\ Returned(lastop'.value, lastop'.mode, lastop'.out)]_vars
C24_Witness ==
    /\ lastop.name = "get_info" /\ lastop.mode = "as_bool"
    /\ lastop.value = "None" /\ lastop.out = "False"
    /\ written[lastop.key] = "unset"
    /\ Len(rows) = 2 /\ rows[2] = [key |-> lastop.key, value |-> "None"]

\* C25: set_info is last-write-wins: after set_info(key, value) the table has
\* one row for the key, holding the value of the most recent set_info, a
\* get_info of the key returns it, the rows of other keys are as they were, and
\* no key ever has a second row.
C25_LastWriteWins ==
    /\ [](\A k \in Keys : Len(with_key(rows, k)) <= 1)
    /\ [](\A k \in Keys : written[k] # "unset" =>
             Present(rows, k) /\ Stored(rows, k) = written[k])
    /\ []((lastop.name = "get_info" /\ lastop.mode = "plain"
             /\ written[lastop.key] # "unset") => lastop.out = written[lastop.key])
    /\ [][lastop'.name = "set_info" =>
             /\ \A j \in DOMAIN rows : rows[j].key # lastop'.key => rows'[j] = rows[j]
             /\ Len(rows') = Len(rows) + (IF Present(rows, lastop'.key) THEN 0 ELSE 1)]_vars
C25_Witness ==
    /\ lastop.name = "get_info" /\ lastop.mode = "plain" /\ lastop.value = "0"
    /\ lastop.out = "1" /\ written[lastop.key] = "1"
    /\ Len(rows) = 2 /\ rows[1].key = lastop.key

\* C26: get_commands with its default arguments returns the commands by
\* run_order ascending, and by id ascending among commands of equal run_order.
C26_QueueOrder ==
    (fetched.orderby = "run_order" /\ ~fetched.reverse) =>
        \A a, b \in DOMAIN fetched.rows : a < b =>
            \/ fetched.rows[a].run_order < fetched.rows[b].run_order
            \/ /\ fetched.rows[a].run_order = fetched.rows[b].run_order
               /\ fetched.rows[a].id < fetched.rows[b].id

\* C27: a caget, caput or PV of a macro that is called while request_abort is
\* set does not perform its EPICS operation.
C27_AbortStopsMacroCalls == \A e \in epics : ~e.abort

\* C28: after add_positioner, add_detector, add_counter, and add_trigger of a
\* trigger that is not None, verified is False, and no list holds an object
\* twice.
AddNames == {"add_positioner", "add_detector", "add_counter", "add_trigger"}
C28_RegistrationResets ==
    /\ (lastreg.name \in AddNames /\ ~(lastreg.name = "add_trigger" /\ lastreg.arg = 0))
          => ~verified
    /\ \A f \in DOMAIN lists : NoDup(lists[f])
C28_Witness ==
    /\ lastreg.name = "add_positioner" /\ lastreg.before /\ ~verified
    /\ lists.positioners = <<2, 1>> /\ Len(hooks) = 3


\* ------------------------------------------------------------ order of a point
\* the calls of the point loop that the order of a point is about
PointLines == {641, 659, 688, 691, 693, 317, 319, 700}
PointCalls == SelectSeq(calls, LAMBDA c : c.line \in PointLines)
Rank(c) ==
    CASE c.op = "move_to_pos" -> 1
      [] c.op = "trig.start" -> 2
      [] c.op = "read" -> 3
      [] c.op = "current" -> 4
      [] c.op = "message_thread.cpt" -> 5
      [] c.op = "pos.at_break" -> 6
      [] c.op = "det.at_break" -> 7
      [] c.op = "write_data" -> 8
      [] OTHER -> 9
\* the loop index a call belongs to (cpt is i + 1)
Iter(c) == IF c.line = 693 THEN c.arg - 1 ELSE c.arg
ListOf(c) ==
    CASE c.op \in {"move_to_pos", "current", "pos.at_break"} -> Cardinality(Positioners)
      [] c.op = "trig.start" -> Cardinality(Triggers)
      [] c.op = "read" -> Cardinality(Counters)
      [] c.op = "det.at_break" -> Cardinality(Detectors)
      [] OTHER -> 0
IsFirst(c) == c.who = (IF ListOf(c) = 0 THEN 0 ELSE 1)
IsLast(c) == c.who = ListOf(c)
\* b is the call that follows a within one iteration
Follows(a, b) ==
    /\ Iter(b) = Iter(a)
    /\ \/ Rank(b) = Rank(a) /\ b.who = a.who + 1
       \/ /\ IsLast(a) /\ IsFirst(b)
          /\ Rank(b) = (IF Rank(a) = 5 /\ Iter(a) \notin breakpoints THEN 9
                        ELSE Rank(a) + 1)

\* C29: within an iteration the calls come in the order: move of every
\* positioner, start of every trigger, read of every counter, the actual
\* positions, cpt published to the messenger, the checkpoint (hooks, then
\* write_data) exactly when the index is a breakpoint, the interrupt sample; a
\* call that does not continue its iteration in this order is the first move of
\* an iteration and follows the interrupt sample that ended the iteration
\* before.  So no counter is read before the triggers of its iteration
\* were started, and no checkpoint precedes the read of its iteration.
C29_PointOrder ==
    /\ PointCalls # <<>> => PointCalls[1].op = "move_to_pos" /\ PointCalls[1].who = 1
    /\ \A k \in 1..(Len(PointCalls) - 1) :
          \/ Follows(PointCalls[k], PointCalls[k + 1])
          \/ /\ PointCalls[k + 1].op = "move_to_pos" /\ PointCalls[k + 1].who = 1
             /\ IsLast(PointCalls[k])
             /\ Rank(PointCalls[k]) = 9
C29_Witness ==
    /\ Retries(calls) = 1 /\ npts = 2 /\ breakpoints = {1}
    /\ NCalls(calls, 319, 0, 1) = 1 /\ NCalls(calls, 700, 0, 1) = 1
    /\ NCalls(calls, 700, 0, 0) = 2

\* ------------------------------------------------------------ original positions
MoveOps == {"move_to_start", "move_to_pos", "move_to"}
Moves(cs) == {k \in DOMAIN cs : cs[k].op \in MoveOps}

\* C30: the step that enters the capture of the original positions has cleared
\* abort, pause and resume and, with a store, request_abort, request_pause and
\* request_resume; the first step of a run that issues a move is the one that
\* captures every positioner's position, reading it before the move; no later
\* step changes the captured values; and the return moves are one per
\* positioner, in list order, each to the captured value of its positioner.
C30_CaptureThenReturn ==
    /\ [][(pc # "orig" /\ pc' = "orig") =>
             /\ ~abort' /\ ~pause' /\ ~resume'
             /\ scandb => \A k \in FlagKeys : ~info'[k]]_vars
    /\ [][(Moves(calls') # Moves(calls)) =>
             IF Moves(calls) = {}
             THEN /\ pc = "orig"
                  /\ orig_positions' = position
                  /\ \A p \in Positioners :
                        \E k \in DOMAIN calls' :
                           /\ calls'[k].line = 534 /\ calls'[k].who = p
                           /\ \A m \in Moves(calls') : k < m
             ELSE orig_positions' = orig_positions]_vars
    /\ [](LET ret == SelectSeq(calls, LAMBDA c : c.line = 725) IN
            /\ Len(ret) \in {0, Cardinality(Positioners)}
            /\ \A p \in DOMAIN ret : ret[p].who = p /\ ret[p].arg = orig_positions[p]
            /\ pc \in {"finalcheck", "post"} => Len(ret) = Cardinality(Positioners))
C30_Witness ==
    /\ pc = "finalcheck" /\ seen.exit = "end" /\ npts = 2
    /\ orig_positions = [p \in Positioners |-> 0 - p] /\ position = orig_positions
    /\ \A p \in Positioners : NCalls(calls, 725, p, 0 - p) = 1


\* ------------------------------------------------------------ cancelling
\* C31: a command that add_command has enqueued before a call of
\* cancel_remaining_commands is not 'requested' after the call: no command
\* that was added before a cancel is a requested row of the table.
C31_CancelLeavesNoneRequested ==
    \A j \in DOMAIN commands :
        (commands[j].stored /\ commands[j].missed) => commands[j].status # "requested"


\* ------------------------------------------------------------ waiting for a pause
\* a step of wait_for_pause: a macro call is between its test of abort and its
\* EPICS call, and request_pause is read
WaitStep == macro.pc \in {"tested", "waiting"} /\ lastop'.name = "get_info"

\* C32: wait_for_pause returns at once when its first read finds request_pause
\* unset; when it was set, the wait goes on after every poll that reads it set
\* before the timeout, and it returns only with a poll that reads it unset or
\* with the timeout passed, whatever request_abort is meanwhile.
C32_WaitForPause ==
    /\ [][WaitStep =>
            /\ lastop'.key = "request_pause"
            /\ (macro.pc = "tested" /\ lastop'.out = "False") => macro'.pc = "idle"
            /\ macro'.pc # "idle" => (macro'.pc = "waiting" /\ lastop'.out = "True"
                                      /\ epics' = epics)
            /\ macro'.pc = "idle" =>
                 \/ lastop'.out = "False"
                 \/ macro.pc = "waiting" /\ macro'.late]_vars
    /\ [](macro.paused => macro.late)
\* a macro call is waiting in a pause, and abort was requested after its test
C32_Witness ==
    /\ macro.pc = "waiting" /\ ~macro.abort
    /\ Present(rows, "request_abort") /\ Stored(rows, "request_abort") = "1"
    /\ lastop.name = "get_info" /\ lastop.key = "request_pause" /\ lastop.out = "True"


\* ------------------------------------------------------------ abort during preparation
\* the run is between clear_interrupts and the first test of the point loop
Preparing == pc \in {"orig", "prescan", "open", "thread", "startwait", "loop"}

\* C33: no step of the run between clear_interrupts and the point loop erases a
\* request_abort that is set in the store: an abort written by another client
\* in that window is still set when the loop takes its first interrupt sample.
C33_AbortKeptWhilePreparing ==
    [][(Preparing /\ pc' # pc /\ info["request_abort"]) => info'["request_abort"]]_vars


\* ------------------------------------------------------------ return after a failure
\* C34: when run_stepscan has returned or raised after a move was issued, the
\* return move of line 725 was issued for every positioner.
C34_ReturnAfterAnyMove ==
    (pc = "done" /\ Moves(calls) # {}) =>
        \A p \in Positioners : \E k \in DOMAIN calls : calls[k].line = 725 /\ calls[k].who = p


\* ------------------------------------------------------------ progress reports
\* C35: the progress function is never called with the None sentinel, and it is
\* never called with a cpt smaller than one it was called with before.
C35_ProgressArguments ==
    [][\A c \in reported' \ reported :
          c # -1 /\ \A earlier \in reported : earlier <= c]_vars

\* C36: once scan_progress is 'finishing' the only message that replaces it is
\* 'scan complete', and when a run with a store has returned normally
\* scan_progress is 'scan complete'.
C36_FinishingStays ==
    /\ [][progress.msg = "finishing" =>
             progress'.msg \in {"finishing", "scan complete"}]_vars
    /\ []((pc = "done" /\ outcome = "complete" /\ scandb) =>
             progress.msg = "scan complete")
\* the second half of C36 alone: scan_progress at a successful return
C36_CompleteAtReturn ==
    (pc = "done" /\ outcome = "complete" /\ scandb) => progress.msg = "scan complete"


\* ------------------------------------------------------------ registering twice
\* the object of a registration call is in its list already
Known(reg) ==
    \/ reg.name = "add_positioner"
          /\ \E j \in DOMAIN lists.positioners : lists.positioners[j] = reg.arg
    \/ reg.name = "add_detector"
          /\ \E j \in DOMAIN lists.detectors : lists.detectors[j] = reg.arg

\* C38: add_positioner / add_detector of an object that is registered already
\* changes neither the lists nor the hooks, and no hook is in the hook list
\* twice (pre_scan, post_scan and at_break call every entry of their list).
C38_RegistrationIdempotent ==
    /\ [][Known(lastreg') => (lists' = lists /\ hooks' = hooks)]_vars
    /\ []NoDup(hooks)


\* ------------------------------------------------------------ new messages
\* C39: last_id never decreases; the ids written out are increasing (so none is
\* written out twice); and after a call of get_new_messages every message
\* inserted after the queue was made has been written out.
C39_EveryMessageOnce ==
    /\ [][(db_messages.made /\ db_messages'.made) =>
             db_messages'.last_id >= db_messages.last_id]_vars
    /\ [](\A a, b \in DOMAIN delivered : a < b => delivered[a] < delivered[b])
    /\ [][(got' # got \/ delivered' # delivered) =>
             \A id \in (db_messages.first + 1)..messages :
                 \E k \in DOMAIN delivered' : delivered'[k] = id]_vars


\* ------------------------------------------------------------ the final integrate
\* C40: every integrate of a scan is made with the configuration read for that
\* scan, and after 'finishing' was written for a scan the worker eventually
\* makes the final integrate of that scan (the step that sets the status idle).
C40_WorkerFollowsScan ==
    /\ [](\A r \in integrates : r.config = r.scan)
    /\ \A n \in 1..MaxScans :
          (det_scan = [n |-> n, phase |-> "finished"])
             ~> (\E r \in integrates : r.scan = n /\ r.final)

====
